---- MODULE Spec2Model ----
(***************************************************************************)
(* RobotInterfacePython (wrap_python_robot_interface.cpp): the query       *)
(* facade over a shared robot model and a shared current-state monitor.    *)
(*                                                                         *)
(* Spec        live-state queries (getLinkPose, getCurrentJointValues,     *)
(*             getCurrentVariableValues) of caller threads, interleaved    *)
(*             with the monitor's ingestion of joint-state update events.  *)
(* SpecLimits  getJointLimits over bounded robot models.                   *)
(* SpecGroups  findMinContainingGroup over bounded robot models.           *)
(* SpecCtor    the constructor against a model source that may fail to     *)
(*             resolve the robot description.                              *)
(***************************************************************************)
EXTENDS Integers, Sequences, FiniteSets, TLC

VARIABLES
    \* ---- RobotInterfacePython and the monitor it shares (Spec) ----
    wired,          \* current_state_monitor_ is non-null
    active,         \* the monitor's activity flag (isActive())
    subscriptions,  \* ingestion subscriptions held by the monitor
    table,          \* the monitor's JointValueTable: known variable -> entry
    events,         \* update events delivered so far, in delivery order
    pc,             \* per caller: position inside the query in progress
    op,             \* per caller: the query in progress
    arg,            \* per caller: its name argument
    steps,          \* per caller: observable steps of the query so far
    ensure,         \* per caller: what ensureCurrentState() returned
    snap,           \* per caller: the table as read by the query
    readGen,        \* per caller: number of events merged when snap was read
    ret,            \* per caller: the value returned to Python
    prev,           \* per caller: the previous completed query
    calls,          \* number of queries issued so far
    \* ---- model queries (SpecLimits, SpecGroups) ----
    jointLimits,    \* robot_model_: joint name -> its variable limits
    varCount,       \* robot_model_: joint name -> number of variables
    groups,         \* robot_model_: the groups, in declaration order
    qname,          \* the name passed to the model query
    qresult,        \* the value the model query returned
    \* ---- construction (SpecCtor) ----
    source,         \* model source: description -> model, or NoModel
    obj             \* the RobotInterfacePython object under construction

liveVars  == <<wired, active, subscriptions, table, events, pc, op, arg, steps,
               ensure, snap, readGen, ret, prev, calls>>
modelVars == <<jointLimits, varCount, groups, qname, qresult>>
ctorVars  == <<source, obj>>
vars      == <<liveVars, modelVars, ctorVars>>

--------------------------------------------------------------------------
(* Bounds *)
MaxEvents == 2       \* update events delivered
MaxCalls  == 2       \* queries issued, over all callers
MaxGroups == 3       \* groups declared in a model
MaxVars   == 2       \* variables per joint

Callers == {"c1", "c2"}

--------------------------------------------------------------------------
(* The robot model behind the live-state queries: two joints, one of them  *)
(* with two variables, and two links below the root.                       *)
Variables  == {"v1", "v2", "v3"}
JointNames == {"j1", "j2"}
LinkNames  == {"l1", "l2"}
JointVariables == ("j1" :> <<"v1">>) @@ ("j2" :> <<"v2", "v3">>)
LinkChain      == ("l1" :> <<"j1">>) @@ ("l2" :> <<"j1", "j2">>)

NoSnap == [k \in {} |-> 0]
None   == <<>>

--------------------------------------------------------------------------
(* CurrentStateMonitor: the JointValueTable and its operations.            *)

\* An update event: the variables it sets, the reading it carries and its
\* source-sequence id.  Events reach the monitor in timestamp order, so the
\* sequence id stands for the timestamp too.  The k-th event carries, for
\* variable number i, the reading 10k + i: readings differ between events
\* and between variables.
VarIndex == ("v1" :> 1) @@ ("v2" :> 2) @@ ("v3" :> 3)
Event(vs, k) == [vars |-> vs, val |-> [v \in vs |-> 10 * k + VarIndex[v]], seq |-> k]

\* The update messages published: one joint's variables, or all of them.
EventShapes == {{"v1"}, {"v2", "v3"}, {"v1", "v2", "v3"}}

\* merge(update, timestamp): per variable, overwrite unless the stored
\* entry is newer (last writer wins).
merge(t, ev) ==
    [v \in DOMAIN t \cup ev.vars |->
        IF v \in ev.vars /\ (v \notin DOMAIN t \/ ev.seq >= t[v].seq)
        THEN [val |-> ev.val[v], seq |-> ev.seq]
        ELSE t[v]]

\* isComplete(allModelVariables)
haveCompleteState(t) == \A v \in Variables : v \in DOMAIN t

\* waitForCurrentState(1.0): polls for completeness until the timeout has
\* elapsed; events are merged while the caller is blocked here, and the
\* call answers with the completeness it finds when it returns.
waitForCurrentState(t) == haveCompleteState(t)

isActive == active

\* startStateMonitor(), subscribing again when already active.
startStateMonitor_resubscribe ==
    /\ active' = TRUE
    /\ subscriptions' = subscriptions + 1

\* startStateMonitor(): Inactive -> Active and subscribe; no effect when Active.
startStateMonitor ==
    IF active
    THEN UNCHANGED <<active, subscriptions>>
    ELSE /\ active' = TRUE
         /\ subscriptions' = subscriptions + 1

\* getCurrentStateValues(): a copy of the table's known variables.
getCurrentStateValues(t) == [v \in DOMAIN t |-> t[v].val]

\* getCurrentState(): a RobotState, which holds a value for every variable
\* of the model; a variable never merged is at its default, zero.
getCurrentState(t) ==
    [v \in Variables |-> IF v \in DOMAIN t THEN t[v].val ELSE 0]

\* The ingestion path: one update event is merged as a whole.
Ingest ==
    /\ subscriptions > 0
    /\ Len(events) < MaxEvents
    /\ \E vs \in EventShapes :
          LET ev == Event(vs, Len(events) + 1)
          IN  /\ events' = Append(events, ev)
              /\ table' = merge(table, ev)
    /\ UNCHANGED <<wired, active, subscriptions, pc, op, arg, steps, ensure,
                   snap, readGen, ret, prev, calls>>

--------------------------------------------------------------------------
(* RobotState lookups and the marshalling of their results.                *)

RECURSIVE sumValues(_, _)
sumValues(state, names) ==
    IF names = <<>> THEN 0
    ELSE state[Head(names)] + sumValues(state, Tail(names))

\* The displacement the joints of a chain add up to, root first.
RECURSIVE chainDisplacement(_, _)
chainDisplacement(state, joints) ==
    IF joints = <<>> THEN 0
    ELSE sumValues(state, JointVariables[Head(joints)])
         + chainDisplacement(state, Tail(joints))

\* state->getLinkState(name): the link's state, NULL for no such link.
getLinkState(state, name) ==
    IF name \in LinkNames
    THEN [found |-> TRUE,
          x |-> Len(LinkChain[name]) * 100 + chainDisplacement(state, LinkChain[name])]
    ELSE [found |-> FALSE, x |-> 0]

\* the 7-element list x, y, z, qx, qy, qz, qw of the link's global transform
poseList(ls) == <<ls.x, 0, 0, 0, 0, 0, 1>>

\* getJointState, answering every position with the joint's first variable.
getJointState_firstVariable(state, name) ==
    IF name \in JointNames
    THEN [found |-> TRUE,
          values |-> [i \in 1..Len(JointVariables[name]) |->
                         state[JointVariables[name][1]]]]
    ELSE [found |-> FALSE, values |-> <<>>]

\* state->getJointState(name)->getVariableValues(), NULL for no such joint.
getJointState(state, name) ==
    IF name \in JointNames
    THEN [found |-> TRUE,
          values |-> [i \in 1..Len(JointVariables[name]) |->
                         state[JointVariables[name][i]]]]
    ELSE [found |-> FALSE, values |-> <<>>]

--------------------------------------------------------------------------
(* The live-state queries.                                                 *)

LinkQuery  == "getLinkPose"
JointQuery == "getCurrentJointValues"
VarsQuery  == "getCurrentVariableValues"
Queries    == {LinkQuery, JointQuery, VarsQuery}
ArgsOf(o)  == IF o = LinkQuery THEN LinkNames \cup {"nolink"}
              ELSE IF o = JointQuery THEN JointNames \cup {"nojoint"}
              ELSE {""}
NoPrev     == [op |-> "", ret |-> None, gen |-> 0]

\* ensureCurrentState(), up to its branch on isActive(): the null check,
\* ROS_ERROR and "return false", or the test that decides whether the
\* monitor is started and waited for.
ensureCurrentState(c) ==
    IF ~wired
    THEN /\ steps' = [steps EXCEPT ![c] = <<"error">>]
         /\ ensure' = [ensure EXCEPT ![c] = "false"]
         /\ pc' = [pc EXCEPT ![c] = "done"]
    ELSE IF ~isActive
    THEN /\ steps' = [steps EXCEPT ![c] = <<>>]
         /\ ensure' = [ensure EXCEPT ![c] = "none"]
         /\ pc' = [pc EXCEPT ![c] = "start"]
    ELSE /\ steps' = [steps EXCEPT ![c] = <<>>]
         /\ ensure' = [ensure EXCEPT ![c] = "true"]
         /\ pc' = [pc EXCEPT ![c] = "read"]

\* getCurrentVariableValues() without its null check of the monitor.
getCurrentVariableValues_noNullCheck(c) ==
    /\ ensure' = [ensure EXCEPT ![c] = "none"]
    /\ steps' = [steps EXCEPT ![c] = <<>>]
    /\ pc' = [pc EXCEPT ![c] = IF ~isActive THEN "start" ELSE "wait"]

\* getCurrentVariableValues(), up to its branch on isActive().
getCurrentVariableValues(c) ==
    /\ ensure' = [ensure EXCEPT ![c] = "none"]
    /\ IF ~wired
       THEN /\ steps' = [steps EXCEPT ![c] = <<"error">>]
            /\ pc' = [pc EXCEPT ![c] = "done"]
       ELSE IF ~isActive
       THEN /\ steps' = [steps EXCEPT ![c] = <<>>]
            /\ pc' = [pc EXCEPT ![c] = "start"]
       ELSE /\ steps' = [steps EXCEPT ![c] = <<>>]
            /\ pc' = [pc EXCEPT ![c] = "wait"]

\* Python calls a query method, which runs up to its first blocking or
\* monitor-changing call.
Call(c) ==
    /\ pc[c] \in {"idle", "done"}
    /\ calls < MaxCalls
    /\ calls' = calls + 1
    /\ \E o \in Queries : \E n \in ArgsOf(o) :
          /\ op' = [op EXCEPT ![c] = o]
          /\ arg' = [arg EXCEPT ![c] = n]
          /\ IF o = VarsQuery
             THEN getCurrentVariableValues(c)
             ELSE ensureCurrentState(c)
    /\ prev' = [prev EXCEPT ![c] =
                  IF pc[c] = "done" /\ op[c] = VarsQuery
                  THEN [op |-> op[c], ret |-> ret[c], gen |-> readGen[c]]
                  ELSE NoPrev]
    /\ snap' = [snap EXCEPT ![c] = NoSnap]
    /\ readGen' = [readGen EXCEPT ![c] = 0]
    /\ ret' = [ret EXCEPT ![c] = None]
    /\ UNCHANGED <<wired, active, subscriptions, table, events>>

\* current_state_monitor_->startStateMonitor()
Start(c) ==
    /\ pc[c] = "start"
    /\ startStateMonitor
    /\ steps' = [steps EXCEPT ![c] = Append(@, "start")]
    /\ pc' = [pc EXCEPT ![c] = "wait"]
    /\ UNCHANGED <<wired, table, events, op, arg, ensure, snap, readGen,
                   ret, prev, calls>>

\* The wait, giving up with an error and an empty result when it times out.
Wait_failOnTimeout(c) ==
    /\ pc[c] = "wait"
    /\ IF waitForCurrentState(table)
       THEN /\ steps' = [steps EXCEPT ![c] = Append(@, "wait")]
            /\ pc' = [pc EXCEPT ![c] = "read"]
       ELSE /\ steps' = [steps EXCEPT ![c] = Append(Append(@, "timeout"), "error")]
            /\ pc' = [pc EXCEPT ![c] = "done"]
    /\ ensure' = [ensure EXCEPT ![c] = IF op[c] = VarsQuery THEN @ ELSE "true"]
    /\ UNCHANGED <<wired, active, subscriptions, table, events, op, arg,
                   snap, readGen, ret, prev, calls>>

\* if (!waitForCurrentState(1.0)) ROS_WARN(...)
Wait(c) ==
    /\ pc[c] = "wait"
    /\ steps' = [steps EXCEPT ![c] =
                   IF waitForCurrentState(table)
                   THEN Append(@, "wait")
                   ELSE Append(Append(@, "timeout"), "warn")]
    /\ ensure' = [ensure EXCEPT ![c] = IF op[c] = VarsQuery THEN @ ELSE "true"]
    /\ pc' = [pc EXCEPT ![c] = "read"]
    /\ UNCHANGED <<wired, active, subscriptions, table, events, op, arg,
                   snap, readGen, ret, prev, calls>>

\* What the query returns from the table t it reads.
Answer(o, n, t) ==
    IF o = LinkQuery
    THEN LET ls == getLinkState(getCurrentState(t), n)
         IN  IF ls.found THEN poseList(ls) ELSE None
    ELSE IF o = JointQuery
    THEN LET js == getJointState(getCurrentState(t), n)
         IN  IF js.found THEN js.values ELSE None
    ELSE getCurrentStateValues(t)

\* The read, copying the monitor's variables in two visits to the live table
\* instead of taking one copy of it.
Read_tornCopy(c) ==
    /\ pc[c] = "read"
    /\ IF \A i \in 1..Len(steps[c]) : steps[c][i] # "read"
       THEN /\ snap' = [snap EXCEPT ![c] =
                          [v \in DOMAIN table \cap {"v1", "v2"} |-> table[v]]]
            /\ steps' = [steps EXCEPT ![c] = Append(@, "read")]
            /\ UNCHANGED <<pc, readGen, ret>>
       ELSE LET whole == [v \in DOMAIN snap[c] \cup (DOMAIN table \cap {"v3"}) |->
                             IF v \in DOMAIN snap[c] THEN snap[c][v] ELSE table[v]]
            IN  /\ snap' = [snap EXCEPT ![c] = whole]
                /\ readGen' = [readGen EXCEPT ![c] = Len(events)]
                /\ ret' = [ret EXCEPT ![c] = Answer(op[c], arg[c], whole)]
                /\ pc' = [pc EXCEPT ![c] = "done"]
                /\ UNCHANGED steps
    /\ UNCHANGED <<wired, active, subscriptions, table, events, op, arg,
                   ensure, prev, calls>>

\* The query reads the monitor's state and marshals its answer.
Read(c) ==
    /\ pc[c] = "read"
    /\ snap' = [snap EXCEPT ![c] = table]
    /\ readGen' = [readGen EXCEPT ![c] = Len(events)]
    /\ ret' = [ret EXCEPT ![c] = Answer(op[c], arg[c], table)]
    /\ steps' = [steps EXCEPT ![c] = Append(@, "read")]
    /\ pc' = [pc EXCEPT ![c] = "done"]
    /\ UNCHANGED <<wired, active, subscriptions, table, events, op, arg,
                   ensure, prev, calls>>

ModelIdle == /\ jointLimits = <<>> /\ varCount = <<>> /\ groups = <<>>
             /\ qname = "" /\ qresult = None
CtorIdle  == source = <<>> /\ obj = <<>>

Init ==
    /\ wired \in BOOLEAN
    /\ active = FALSE
    /\ subscriptions = 0
    /\ table = NoSnap
    /\ events = <<>>
    /\ pc = [c \in Callers |-> "idle"]
    /\ op = [c \in Callers |-> ""]
    /\ arg = [c \in Callers |-> ""]
    /\ steps = [c \in Callers |-> <<>>]
    /\ ensure = [c \in Callers |-> "none"]
    /\ snap = [c \in Callers |-> NoSnap]
    /\ readGen = [c \in Callers |-> 0]
    /\ ret = [c \in Callers |-> None]
    /\ prev = [c \in Callers |-> NoPrev]
    /\ calls = 0
    /\ ModelIdle
    /\ CtorIdle

Next ==
    \/ \E c \in Callers : Call(c) /\ UNCHANGED <<modelVars, ctorVars>>
    \/ \E c \in Callers : Start(c) /\ UNCHANGED <<modelVars, ctorVars>>
    \/ \E c \in Callers : Wait(c) /\ UNCHANGED <<modelVars, ctorVars>>
    \/ \E c \in Callers : Read(c) /\ UNCHANGED <<modelVars, ctorVars>>
    \/ Ingest /\ UNCHANGED <<modelVars, ctorVars>>

Spec == Init /\ [][Next]_vars

--------------------------------------------------------------------------
(* Properties of the live-state queries (Spec).                            *)

Did(c, s)   == \E i \in 1..Len(steps[c]) : steps[c][i] = s
Finished(c) == pc[c] = "done"
Range(f)    == {f[i] : i \in DOMAIN f}
ChainVariables(link) ==
    UNION {Range(JointVariables[j]) : j \in Range(LinkChain[link])}

\* C1: every live-state query on a wired monitor starts the monitor if
\* needed, then waits for the full state, warns if the wait timed out, and
\* only then reads -- on every call, also when the monitor was already
\* active.
C1_WaitOnEveryCall ==
    \A c \in Callers :
        (wired /\ Finished(c)) =>
            steps[c] \in {<<"wait", "read">>,
                          <<"timeout", "warn", "read">>,
                          <<"start", "wait", "read">>,
                          <<"start", "timeout", "warn", "read">>}

\* C3: getLinkPose of a link whose chain has a joint variable missing from
\* the state it read returns none; a pose is returned only when every
\* variable on the chain has a recorded value.
C3_MissingJointGivesNone ==
    \A c \in Callers :
        (Finished(c) /\ op[c] = LinkQuery /\ arg[c] \in LinkNames
           /\ ~(ChainVariables(arg[c]) \subseteq DOMAIN snap[c]))
        => ret[c] = None

\* C4: with no monitor wired, ensureCurrentState returns false and logs an
\* error; every live-state query returns an empty result, logs the error
\* (and no warning), and never starts or waits on a monitor.
C4_UnwiredGivesEmpty ==
    ~wired =>
        /\ ~active /\ subscriptions = 0
        /\ \A c \in Callers :
              /\ pc[c] \in {"idle", "done"}
              /\ Finished(c) =>
                    /\ ret[c] = None
                    /\ steps[c] = <<"error">>
                    /\ (op[c] # VarsQuery => ensure[c] = "false")
C4_Witness ==
    /\ ~wired
    /\ Finished("c1") /\ op["c1"] = VarsQuery
    /\ Finished("c2") /\ op["c2"] = LinkQuery

\* C5: the monitor goes from inactive to active at most once and never
\* back, a start while active changes nothing, and the number of ingestion
\* subscriptions never exceeds one.
C5_StartOnce ==
    /\ [](subscriptions <= 1 /\ (active <=> subscriptions = 1))
    /\ [][active => (active' /\ subscriptions' = subscriptions)]_vars
C5_Witness ==
    active /\ Did("c1", "start") /\ Did("c2", "start")

\* C6: when the wait times out the query still returns normally: a warning
\* and no error is logged, getCurrentVariableValues returns exactly the
\* variables known when it reads, and the timed-out wait itself leaves the
\* monitor and the table as they were.
C6_TimeoutIsBestEffort ==
    /\ [](\A c \in Callers :
            Did(c, "timeout") =>
                /\ Did(c, "warn") /\ ~Did(c, "error")
                /\ pc[c] \in {"read", "done"}
                /\ (Finished(c) /\ op[c] = VarsQuery) =>
                      /\ DOMAIN ret[c] = DOMAIN snap[c]
                      /\ \A v \in DOMAIN ret[c] : ret[c][v] = snap[c][v].val)
    /\ [][\A c \in Callers :
            (pc[c] = "wait" /\ pc'[c] # "wait") =>
                /\ pc'[c] = "read"
                /\ snap'[c] = snap[c] /\ ret'[c] = ret[c]
                /\ UNCHANGED <<active, subscriptions, table, events>>]_vars
C6_Witness ==
    \E c \in Callers :
        /\ Finished(c) /\ op[c] = VarsQuery /\ Did(c, "timeout")
        /\ DOMAIN ret[c] # {} /\ DOMAIN ret[c] # Variables

\* The values a getCurrentJointValues answer gives agree with the previous
\* getCurrentVariableValues answer of the same caller, on every variable of
\* the joint that the previous answer holds.
AgreesWithPrevious(c) ==
    \A i \in 1..Len(ret[c]) :
        LET v == JointVariables[arg[c]][i]
        IN  v \in DOMAIN prev[c].ret => ret[c][i] = prev[c].ret[v]
RoundTrip(c) ==
    /\ Finished(c) /\ op[c] = JointQuery /\ arg[c] \in JointNames
    /\ prev[c].op = VarsQuery

C8_SnapshotHoldsWholeEvents ==
    \A c \in Callers : \A v \in DOMAIN snap[c] :
        LET e == events[snap[c][v].seq]
        IN  \A w \in e.vars :
               /\ w \in DOMAIN snap[c]
               /\ snap[c][w].seq >= e.seq
               /\ (snap[c][w].seq = e.seq => snap[c][w].val = e.val[w])
C8_Witness ==
    \E c \in Callers :
        /\ Finished(c) /\ op[c] = VarsQuery
        /\ DOMAIN ret[c] = Variables
        /\ snap[c]["v2"].seq = snap[c]["v3"].seq
        /\ snap[c]["v1"].seq # snap[c]["v2"].seq

--------------------------------------------------------------------------
(* getJointLimits over bounded robot models (SpecLimits).                  *)

LiveIdle ==
    /\ wired = FALSE /\ active = FALSE /\ subscriptions = 0
    /\ table = NoSnap /\ events = <<>>
    /\ pc = [c \in Callers |-> "idle"]
    /\ op = [c \in Callers |-> ""]
    /\ arg = [c \in Callers |-> ""]
    /\ steps = [c \in Callers |-> <<>>]
    /\ ensure = [c \in Callers |-> "none"]
    /\ snap = [c \in Callers |-> NoSnap]
    /\ readGen = [c \in Callers |-> 0]
    /\ ret = [c \in Callers |-> None]
    /\ prev = [c \in Callers |-> NoPrev]
    /\ calls = 0

JointPool == {"ja", "jb"}
LimitPool == {[min_position |-> -1, max_position |-> 1],
              [min_position |-> 0, max_position |-> 2]}
\* the variable limits a joint can have: none (a fixed joint) up to MaxVars
LimitSeqs == UNION {[1..n -> LimitPool] : n \in 0..MaxVars}

\* robot_model_->getJointModel(name): NULL for a name that is no joint
getJointModel(name) ==
    IF name \in DOMAIN jointLimits
    THEN [found |-> TRUE, limits |-> jointLimits[name]]
    ELSE [found |-> FALSE, limits |-> <<>>]

\* the loop over lim from index i on: one [min, max] list per limit
RECURSIVE limitPairs(_, _)
limitPairs(lim, i) ==
    IF i > Len(lim) THEN <<>>
    ELSE <<(<<lim[i].min_position, lim[i].max_position>>)>> \o limitPairs(lim, i + 1)

\* getJointLimits with the loop starting one element late.
getJointLimits_skipFirst(name) ==
    LET jm == getJointModel(name)
    IN  IF jm.found THEN limitPairs(jm.limits, 2) ELSE <<>>

getJointLimits(name) ==
    LET jm == getJointModel(name)
    IN  IF jm.found THEN limitPairs(jm.limits, 1) ELSE <<>>

InitLimits ==
    /\ jointLimits \in UNION {[J -> LimitSeqs] : J \in SUBSET JointPool}
    /\ varCount = <<>> /\ groups = <<>>
    /\ qname = "" /\ qresult = None
    /\ LiveIdle /\ CtorIdle

CallGetJointLimits ==
    /\ \E name \in JointPool \cup {"nojoint"} :
          /\ qname' = name
          /\ qresult' = getJointLimits(name)
    /\ UNCHANGED <<jointLimits, varCount, groups, liveVars, ctorVars>>

SpecLimits == InitLimits /\ [][CallGetJointLimits]_vars

\* C9: getJointLimits(name) returns an empty sequence for a name that is no
\* joint of the model, and for a joint exactly one (min, max) pair per
\* variable of the joint, in the joint's variable order.
C9_JointLimits ==
    qname # "" =>
        IF qname \in DOMAIN jointLimits
        THEN /\ Len(qresult) = Len(jointLimits[qname])
             /\ \A i \in 1..Len(qresult) :
                   qresult[i] = <<jointLimits[qname][i].min_position,
                                  jointLimits[qname][i].max_position>>
        ELSE qresult = <<>>
C9_Witness ==
    /\ qname \in DOMAIN jointLimits
    /\ Len(qresult) = 2
    /\ qresult[1] # qresult[2]

--------------------------------------------------------------------------
(* findMinContainingGroup over bounded robot models (SpecGroups).          *)

GroupJoints   == {"j1", "j2", "j3"}
GroupNamePool == <<"arm", "gripper", "torso", "head", "base">>
NullName      == "NULL"

\* the groups a model can declare: up to MaxGroups, each a non-empty set of
\* joints, named in declaration order
GroupLists ==
    UNION {[1..n -> (SUBSET GroupJoints) \ {{}}] : n \in 0..MaxGroups}

RECURSIVE sumCounts(_)
sumCounts(js) ==
    IF js = {} THEN 0
    ELSE LET j == CHOOSE x \in js : TRUE
         IN  varCount[j] + sumCounts(js \ {j})

\* jmg->getVariableCount() and jmg->hasJointModel(joint_name)
getVariableCount(jmg) == sumCounts(jmg.joints)
hasJointModel(jmg, joint_name) == joint_name \in jmg.joints

\* the loop over gnames from index i on; group = 0 is the NULL pointer.
\* This one takes a later group of equal variable count.
RECURSIVE scanGroups_lastWins(_, _, _)
scanGroups_lastWins(i, group, joint_name) ==
    IF i > Len(groups) THEN group
    ELSE IF hasJointModel(groups[i], joint_name)
            /\ (group = 0
                \/ getVariableCount(groups[group]) >= getVariableCount(groups[i]))
         THEN scanGroups_lastWins(i + 1, i, joint_name)
         ELSE scanGroups_lastWins(i + 1, group, joint_name)

RECURSIVE scanGroups(_, _, _)
scanGroups(i, group, joint_name) ==
    IF i > Len(groups) THEN group
    ELSE IF hasJointModel(groups[i], joint_name)
            /\ (group = 0
                \/ getVariableCount(groups[group]) > getVariableCount(groups[i]))
         THEN scanGroups(i + 1, i, joint_name)
         ELSE scanGroups(i + 1, group, joint_name)

findMinContainingGroup_lastWins(joint_name) ==
    LET group == scanGroups_lastWins(1, 0, joint_name)
    IN  IF group # 0 THEN groups[group].name ELSE NullName

findMinContainingGroup(joint_name) ==
    LET group == scanGroups(1, 0, joint_name)
    IN  IF group # 0 THEN groups[group].name ELSE NullName

InitGroups ==
    /\ varCount \in [GroupJoints -> 1..MaxVars]
    /\ \E gl \in GroupLists :
          groups = [i \in 1..Len(gl) |->
                       [name |-> GroupNamePool[i], joints |-> gl[i]]]
    /\ jointLimits = <<>>
    /\ qname = "" /\ qresult = NullName
    /\ LiveIdle /\ CtorIdle

CallFindMinContainingGroup ==
    /\ \E name \in GroupJoints \cup {"nojoint"} :
          /\ qname' = name
          /\ qresult' = findMinContainingGroup(name)
    /\ UNCHANGED <<jointLimits, varCount, groups, liveVars, ctorVars>>

SpecGroups == InitGroups /\ [][CallFindMinContainingGroup]_vars

Containing(joint_name) ==
    {i \in 1..Len(groups) : joint_name \in groups[i].joints}

\* C2: findMinContainingGroup(joint) returns, among the groups containing
\* the joint, the one with the fewest variables, the first in declaration
\* order among those of equal smallest count, and none when no group
\* contains the joint.
C2_MinContainingGroup ==
    qname # "" =>
        IF Containing(qname) = {}
        THEN qresult = NullName
        ELSE \E i \in Containing(qname) :
                /\ qresult = groups[i].name
                /\ \A k \in Containing(qname) :
                      /\ getVariableCount(groups[i]) <= getVariableCount(groups[k])
                      /\ getVariableCount(groups[k]) = getVariableCount(groups[i])
                            => i <= k
C2_Witness ==
    /\ qname # "" /\ Len(groups) = 3
    /\ Containing(qname) = {1, 2, 3}
    /\ getVariableCount(groups[1]) > getVariableCount(groups[2])
    /\ getVariableCount(groups[2]) = getVariableCount(groups[3])
    /\ groups[2].joints # groups[3].joints
    /\ qresult = groups[2].name

--------------------------------------------------------------------------
(* Construction against a model source that may not resolve (SpecCtor).    *)

Descriptions == {"robot_description", "alt_description", "typo_description"}
ModelIds     == {"m1", "m2"}
NoModel      == "no model"
ModelFrame   == ("m1" :> "base_link") @@ ("m2" :> "world")
NotBuilt     == [state |-> "none", robot_model_ |-> NoModel,
                 current_state_monitor_ |-> "null", frame |-> ""]

\* planning_interface::getSharedRobotModel(robot_description): the model,
\* or "no model" when the description does not resolve
getSharedRobotModel(robot_description) == source[robot_description]

\* planning_interface::getSharedStateMonitor(model, tf): the shared monitor
\* over that model
getSharedStateMonitor(model) == "monitor"

InitCtor ==
    /\ source \in [Descriptions -> ModelIds \cup {NoModel}]
    /\ obj = NotBuilt
    /\ LiveIdle /\ ModelIdle

\* RobotInterfacePython(robot_description)
Construct ==
    /\ obj.state = "none"
    /\ \E d \in Descriptions :
          LET m == getSharedRobotModel(d)
          IN  obj' = [state |-> "constructed",
                      robot_model_ |-> m,
                      current_state_monitor_ |-> getSharedStateMonitor(m),
                      frame |-> ""]
    /\ UNCHANGED <<source, liveVars, modelVars>>

\* getPlanningFrame() on the constructed object; through a null
\* robot_model_ the dereference is undefined: the process dies or the call
\* returns whatever it finds.
GetPlanningFrame ==
    /\ obj.state = "constructed"
    /\ IF obj.robot_model_ # NoModel
       THEN obj' = [obj EXCEPT !.frame = ModelFrame[obj.robot_model_]]
       ELSE \/ obj' = [obj EXCEPT !.state = "crashed"]
            \/ obj' = [obj EXCEPT !.frame = "garbage"]
    /\ UNCHANGED <<source, liveVars, modelVars>>

NextCtor == Construct \/ GetPlanningFrame

SpecCtor == InitCtor /\ [][NextCtor]_vars

\* C10: when the model source cannot resolve the description, construction
\* fails: no state monitor is obtained, and no object on which queries can
\* be called exists with an absent model.
C10_NoObjectWithoutModel ==
    obj.robot_model_ = NoModel =>
        /\ obj.state # "constructed"
        /\ obj.current_state_monitor_ = "null"

====
